---------------------------- MODULE Spec2Model ----------------------------
(***************************************************************************)
(* Model of the internship pipeline of shoaibkhan2206/testapi:             *)
(*   job_search.py            extraction, multi-query aggregation, dedup   *)
(*   recommend_internships.py similarity ranking                           *)
(*                                                                         *)
(* Strings are sequences of one-character strings.  A JSON/dict value is a *)
(* record [kind, s]: kind "absent" (the key is not in the dict), "null"    *)
(* (None) or "str" (the string s).                                         *)
(***************************************************************************)
EXTENDS Integers, Sequences, FiniteSets, TLC

VARIABLES
    \* ---- transform_job_to_internship on one raw posting
    job,                \* the raw posting handed to the extractor
    internship,         \* its result: a normalized record, or Raised
    \* ---- generate_jobs
    pc,                 \* position in the running function
    skills, degree,     \* request inputs
    search_queries,     \* list of (name, query) built at the start
    qi,                 \* number of queries the for-loop has taken
    outcomes,           \* history: what the provider did for each query
    used,               \* history: raw postings returned so far
    all_internships,    \* merged normalized records
    unique_internships, \* records after duplicate removal
    removed,            \* the number of duplicates the function reports
    output_data,        \* the document written to output.json / returned
    \* ---- generate_recommendations
    internships,        \* records handed to the ranker
    top_k,              \* requested number of recommendations
    simOf,              \* the embedding capability: description -> level
    results,            \* scored (then sorted) rows
    out_records,        \* "recommendations" array of recommendations.json
    total_found,        \* "total_found" of recommendations.json
    df                  \* the returned DataFrame rows

vars == << job, internship, pc, skills, degree, search_queries, qi, outcomes,
           used, all_internships, unique_internships, removed, output_data,
           internships, top_k, simOf, results, out_records, total_found, df >>

extractVars == << job, internship >>
jobsVars == << skills, degree, search_queries, qi, outcomes, used,
               all_internships, unique_internships, removed, output_data >>
rankVars == << internships, top_k, simOf, results, out_records,
               total_found, df >>

-----------------------------------------------------------------------------
(* Values and strings *)

Absent == [kind |-> "absent", s |-> <<>>]
Null   == [kind |-> "null",   s |-> <<>>]
Str(s) == [kind |-> "str",    s |-> s]

\* Python truthiness of a value that is None or a string
Truthy(v) == v.kind = "str" /\ v.s # <<>>

\* dict.get(key): None when the key is missing
Get(v) == IF v.kind = "absent" THEN Null ELSE v

\* a or b
Or(a, b) == IF Truthy(a) THEN a ELSE b

\* Stand-ins for the two non-ASCII characters of the salary pattern
Rupee  == "RUPEE"
EnDash == "ENDASH"

IsSpace(c) == c \in {" ", "\t", "\n"}
IsDigit(c) == c \in {"0", "1", "2", "3", "4", "5", "6", "7", "8", "9"}

UpperCase == <<"A","B","C","D","E","F","G","H","I","J","K","L","M",
               "N","O","P","Q","R","S","T","U","V","W","X","Y","Z">>
LowerCase == <<"a","b","c","d","e","f","g","h","i","j","k","l","m",
               "n","o","p","q","r","s","t","u","v","w","x","y","z">>

\* str.lower() on one character
LowerChar(c) ==
    IF \E i \in 1..26 : UpperCase[i] = c
    THEN LowerCase[CHOOSE i \in 1..26 : UpperCase[i] = c]
    ELSE c

\* str.lower()
Lower(s) == [i \in 1..Len(s) |-> LowerChar(s[i])]

Min(a, b) == IF a <= b THEN a ELSE b
Max(a, b) == IF a >= b THEN a ELSE b

\* s[i..j] (1-based, inclusive), empty when i > j
Sub(s, i, j) == IF i > j THEN <<>> ELSE SubSeq(s, i, j)

AllSpace(s) == \A i \in 1..Len(s) : IsSpace(s[i])

\* str.strip()
Strip(s) ==
    IF AllSpace(s) THEN <<>>
    ELSE LET a == CHOOSE i \in 1..Len(s) :
                     ~IsSpace(s[i]) /\ \A j \in 1..(i-1) : IsSpace(s[j])
             b == CHOOSE i \in 1..Len(s) :
                     ~IsSpace(s[i]) /\ \A j \in (i+1)..Len(s) : IsSpace(s[j])
         IN SubSeq(s, a, b)

\* re.sub(r'\s+', ' ', s): every run of whitespace becomes one space
RECURSIVE CollapseSpace(_)
CollapseSpace(s) ==
    IF s = <<>> THEN <<>>
    ELSE IF IsSpace(s[1])
         THEN IF Len(s) > 1 /\ IsSpace(s[2])
              THEN CollapseSpace(Tail(s))
              ELSE <<" ">> \o CollapseSpace(Tail(s))
         ELSE <<s[1]>> \o CollapseSpace(Tail(s))

\* the literal word w (given in lower case) occurs in s at position p,
\* compared case-insensitively (re.IGNORECASE)
WordAt(s, p, w) ==
    /\ p >= 1
    /\ p + Len(w) - 1 <= Len(s)
    /\ \A i \in 1..Len(w) : LowerChar(s[p + i - 1]) = w[i]

\* ', '.join(parts)
RECURSIVE Join(_)
Join(parts) ==
    IF parts = <<>> THEN <<>>
    ELSE IF Len(parts) = 1 THEN parts[1]
    ELSE parts[1] \o <<",", " ">> \o Join(Tail(parts))

-----------------------------------------------------------------------------
(* job_search.py: field extraction *)

\* [\d,K<en dash>-] of the salary pattern, under re.IGNORECASE
SalaryClass(c) == IsDigit(c) \/ c \in {",", "K", "k", EnDash, "-"}

\* (a\s+year|a\s+month|per\s+month|per\s+year) matches s from position p
PeriodAt(s, p) ==
    \E w \in { << <<"a">>, <<"y","e","a","r">> >>,
               << <<"a">>, <<"m","o","n","t","h">> >>,
               << <<"p","e","r">>, <<"m","o","n","t","h">> >>,
               << <<"p","e","r">>, <<"y","e","a","r">> >> } :
        /\ WordAt(s, p, w[1])
        /\ \E q \in (p + Len(w[1]) + 1)..Len(s) :
              /\ AllSpace(Sub(s, p + Len(w[1]), q - 1))
              /\ WordAt(s, q, w[2])

\* re.search(<rupee>[\d,K<en dash>-]+\s*(a\s+year|...), ext, re.IGNORECASE)
SalaryMatch(s) ==
    \E i \in 1..Len(s) :
        /\ s[i] = Rupee
        /\ \E j \in (i+1)..Len(s) :
              /\ \A k \in (i+1)..j : SalaryClass(s[k])
              /\ \E q \in (j+1)..Len(s) :
                    /\ AllSpace(Sub(s, j + 1, q - 1))
                    /\ PeriodAt(s, q)

\* the free-text scan of extract_salary: the first matching entry, else None
RECURSIVE FirstSalaryExt(_)
FirstSalaryExt(items) ==
    IF items = <<>> THEN Null
    ELSE IF SalaryMatch(Head(items)) THEN Str(Head(items))
    ELSE FirstSalaryExt(Tail(items))

\* extract_salary that scans the free-text list before the structured field
extract_salary_free_text_first(j) ==
    IF j.extensions.kind = "list"
       /\ FirstSalaryExt(j.extensions.items) # Null
    THEN FirstSalaryExt(j.extensions.items)
    ELSE IF j.detected_extensions.kind = "dict"
            /\ j.detected_extensions.salary.kind # "absent"
         THEN j.detected_extensions.salary
         ELSE Null

\* extract_salary: the structured value wins whenever the key is there
extract_salary(j) ==
    IF j.detected_extensions.kind = "dict"
       /\ j.detected_extensions.salary.kind # "absent"
    THEN j.detected_extensions.salary
    ELSE IF j.extensions.kind = "list"
         THEN FirstSalaryExt(j.extensions.items)
         ELSE Null

\* extract_salary raises TypeError: membership test on a null
\* detected_extensions, or iteration over a null extensions list
extract_salary_raises(j) ==
    \/ j.detected_extensions.kind = "null"
    \/ /\ ~(j.detected_extensions.kind = "dict"
            /\ j.detected_extensions.salary.kind # "absent")
       /\ j.extensions.kind = "null"

TimeWords == { <<"f","u","l","l","-","t","i","m","e">>,
               <<"p","a","r","t","-","t","i","m","e">>,
               <<"i","n","t","e","r","n","s","h","i","p">>,
               <<"c","o","n","t","r","a","c","t">>,
               <<"t","e","m","p","o","r","a","r","y">>,
               <<"f","r","e","e","l","a","n","c","e">> }

\* \d+\s+<word> matches s with its last digit at position p; the result is
\* the set of positions right after the word
DigitsThenWord(s, p, w) ==
    { q + Len(w) : q \in { q \in (p + 2)..Len(s) :
                             /\ IsDigit(s[p])
                             /\ AllSpace(Sub(s, p + 1, q - 1))
                             /\ WordAt(s, q, w) } }

\* re.search of the schedule / recency pattern of extract_time_period
TimeMatch(s) ==
    \/ \E p \in 1..Len(s), w \in TimeWords : WordAt(s, p, w)
    \/ \E p \in 1..Len(s) :
          DigitsThenWord(s, p, <<"m","o","n","t","h">>) # {}
    \/ \E p \in 1..Len(s) :
          \E e \in DigitsThenWord(s, p, <<"d","a","y">>) :
             \E a \in {e, e + 1} :
                /\ a = e + 1 => (e <= Len(s) /\ LowerChar(s[e]) = "s")
                /\ \E q \in (a + 1)..Len(s) :
                      /\ AllSpace(Sub(s, a, q - 1))
                      /\ WordAt(s, q, <<"a","g","o">>)

InSeq(x, sq) == \E i \in 1..Len(sq) : sq[i] = x

\* the extensions loop of extract_time_period
RECURSIVE TimeExts(_, _)
TimeExts(items, acc) ==
    IF items = <<>> THEN acc
    ELSE IF TimeMatch(Head(items)) /\ ~InSeq(Str(Head(items)), acc)
         THEN TimeExts(Tail(items), Append(acc, Str(Head(items))))
         ELSE TimeExts(Tail(items), acc)

\* time_indicators as extract_time_period collects them (a list of values)
time_indicators(j) ==
    LET d == j.detected_extensions
        a == IF d.kind = "dict" /\ d.schedule_type.kind # "absent"
             THEN << d.schedule_type >> ELSE <<>>
        b == IF d.kind = "dict" /\ d.posted_at.kind # "absent"
             THEN << Str(<<"P","o","s","t","e","d"," ">> \o
                         (IF d.posted_at.kind = "null"
                          THEN <<"N","o","n","e">> ELSE d.posted_at.s)) >>
             ELSE <<>>
    IN IF j.extensions.kind = "list"
       THEN TimeExts(j.extensions.items, a \o b)
       ELSE a \o b

\* extract_time_period raises TypeError: membership test on a null
\* detected_extensions, iteration over a null extensions list, or ', '.join over a list that holds None
extract_time_period_raises(j) ==
    \/ j.detected_extensions.kind = "null"
    \/ j.extensions.kind = "null"
    \/ \E i \in 1..Len(time_indicators(j)) :
          time_indicators(j)[i].kind = "null"

\* extract_time_period
extract_time_period(j) ==
    IF time_indicators(j) # <<>>
    THEN Str(Join([i \in 1..Len(time_indicators(j)) |->
                     time_indicators(j)[i].s]))
    ELSE Null

\* clean_description; .get('description', '') turns a missing key into ''
clean_description(v) ==
    IF ~Truthy(v) THEN <<>> ELSE CollapseSpace(Strip(v.s))

\* [^,]+(?:,\s*[^,]+)* matches the whole of x: a comma-separated list
\* whose segments are all non-empty
CommaList(x) ==
    /\ x # <<>>
    /\ x[1] # ","
    /\ x[Len(x)] # ","
    /\ \A i \in 1..(Len(x) - 1) : ~(x[i] = "," /\ x[i+1] = ",")

\* \s*\([^)]+\) matches the whole of y
ParenPart(y) ==
    \E p \in 1..Len(y) :
        /\ AllSpace(Sub(y, 1, p - 1))
        /\ y[p] = "("
        /\ y[Len(y)] = ")"
        /\ Len(y) - p >= 2
        /\ \A q \in (p+1)..(Len(y) - 1) : y[q] # ")"

\* ([^,]+(?:,\s*[^,]+)*(?:\s*\([^)]+\))?)\s*$ matches the whole of b
BodyMatch(b) ==
    \E i \in 1..Len(b), j \in 1..Len(b) :
        /\ i <= j
        /\ CommaList(Sub(b, 1, i))
        /\ (j = i \/ ParenPart(Sub(b, i + 1, j)))
        /\ AllSpace(Sub(b, j + 1, Len(b)))

\* the end of the whitespace run that starts at i, when "in" follows it
InAfter(s, i) ==
    { k \in i..Len(s) : AllSpace(Sub(s, i, k)) /\ WordAt(s, k + 1, <<"i","n">>) }

\* \s+in\s+(...)\s*$ matches s starting at position i
TitleMatchAt(s, i) ==
    \E k \in InAfter(s, i) :
        \E b \in (k + 4)..Len(s) :
            /\ AllSpace(Sub(s, k + 3, b - 1))
            /\ BodyMatch(Sub(s, b, Len(s)))

TitleMatches(s) == \E i \in 1..Len(s) : TitleMatchAt(s, i)

\* start of the leftmost match (re.search)
TitleMatchStart(s) ==
    CHOOSE i \in 1..Len(s) :
        TitleMatchAt(s, i) /\ \A h \in 1..(i-1) : ~TitleMatchAt(s, h)

\* extract_location_from_title: <<clean_title, location>>; title is None or
\* a string
extract_location_from_title(title) ==
    IF ~Truthy(title) THEN << title, Null >>
    ELSE IF TitleMatches(title.s)
         THEN LET i == TitleMatchStart(title.s)
                  k == CHOOSE k \in InAfter(title.s, i) : TRUE
              IN << Str(Strip(Sub(title.s, 1, i - 1))),
                    Str(Strip(Sub(title.s, k + 3, Len(title.s)))) >>
         ELSE << title, Null >>

UnknownPosition ==
    <<"U","n","k","n","o","w","n"," ","P","o","s","i","t","i","o","n">>

\* data[key] = value under "if value is not None:"
IfNotNone(v) == IF v.kind = "str" THEN v ELSE Absent

\* data[key] = value only under "if value:"
IfSet(v) == IF Truthy(v) THEN v ELSE Absent

\* the company lookup of transform_job_to_internship
company_of(j) ==
    IF j.company_name.kind # "absent" THEN j.company_name
    ELSE IF j.hiring_company.kind = "dict" THEN Get(j.hiring_company.name)
    ELSE Null

\* transform_job_to_internship raises
transform_raises(j) ==
    extract_salary_raises(j) \/ extract_time_period_raises(j)

\* the dict transform_job_to_internship returns; a key that is not set is
\* Absent
transform_job_to_internship(j) ==
    LET original_title == IF j.title.kind = "absent"
                          THEN Str(UnknownPosition) ELSE j.title
        tl == extract_location_from_title(original_title)
    IN [ job_title   |-> tl[1],
         description |-> Str(clean_description(j.description)),
         location    |-> IfSet(Or(tl[2], Get(j.location))),
         company     |-> IfSet(company_of(j)),
         source_url  |-> IfSet(Or(Get(j.link), Or(Get(j.source), Null))),
         salary      |-> IfSet(extract_salary(j)),
         time_period |-> IfSet(extract_time_period(j)) ]

-----------------------------------------------------------------------------
(* Raw postings the provider can return *)

NoDetected == [kind |-> "absent", salary |-> Absent,
               schedule_type |-> Absent, posted_at |-> Absent]
NullDetected == [kind |-> "null", salary |-> Absent,
                 schedule_type |-> Absent, posted_at |-> Absent]
Detected(sal, sched, posted) ==
    [kind |-> "dict", salary |-> sal, schedule_type |-> sched,
     posted_at |-> posted]

NoExtensions   == [kind |-> "absent", items |-> <<>>]
NullExtensions == [kind |-> "null",   items |-> <<>>]
Extensions(l)  == [kind |-> "list",   items |-> l]

NoHiring     == [kind |-> "absent", name |-> Absent]
OtherHiring  == [kind |-> "other",  name |-> Absent]
Hiring(name) == [kind |-> "dict",   name |-> name]

Titles ==
    { Absent, Null, Str(<<>>), Str(<<"D","e","v">>), Str(<<"D","e","v"," ","i","n"," ","P","u","n","e">>),
      Str(<<"Q","A"," ","I","N"," "," ","b",","," ","c"," ","(","d",",",",","e",")"," ">>), Str(<<"a"," ","i","n"," ",",","b">>) }

Locations == { Absent, Str(<<>>), Str(<<"G","o","a">>) }
CompanyNames == { Absent, Null, Str(<<>>), Str(<<"A","c","m","e">>) }
HiringCompanies == { NoHiring, OtherHiring, Hiring(Str(<<"H","i","r","e">>)) }

\* << description, link, source >>
DescLinks == { << Absent, Absent, Absent >>,
               << Str(<<" ","a"," "," ","b"," ","\t","c"," ">>), Absent, Str(<<"S">>) >>,
               << Str(<<" ","a"," "," ","b"," ","\t","c"," ">>), Str(<<"L">>), Str(<<"S">>) >>,
               << Absent, Str(<<>>), Str(<<"S">>) >> }

DetectedExtensions ==
    { NoDetected, NullDetected,
      Detected(Str(<<"5","K">>), Str(<<>>), Absent),
      Detected(Str(<<>>), Str(<<"F","u","l","l","-","t","i","m","e">>), Absent),
      Detected(Null, Absent, Str(<<"2"," ","d","a","y","s"," ","a","g","o">>)),
      Detected(Absent, Null, Absent),
      Detected(Absent, Str(<<"F","u","l","l","-","t","i","m","e">>), Null) }

ExtensionLists ==
    { NoExtensions, NullExtensions,
      Extensions(<< <<Rupee,"5","K"," ","a"," ","m","o","n","t","h">> >>),
      Extensions(<< <<"x">>, <<Rupee,"1",EnDash,"2"," ","P","E","R"," "," ","Y","e","a","r">>, <<Rupee,"3",",","0","0","0"," ","a"," ","y","e","a","r">> >>),
      Extensions(<< <<"F","u","l","l","-","t","i","m","e">>, <<"F","u","l","l","-","t","i","m","e">>, <<"3"," "," ","D","a","y","s"," ","a","g","o">> >>),
      Extensions(<< <<Rupee," ","a"," ","y","e","a","r">>, <<"2"," ","m","o","n","t","h","s">>, <<Rupee,"9"," ","a"," "," ","w","e","e","k">> >>) }

RawPostings ==
    { [ title |-> t, description |-> dl[1], location |-> l,
        company_name |-> c, hiring_company |-> h, link |-> dl[2],
        source |-> dl[3], detected_extensions |-> de, extensions |-> ex ] :
        t \in Titles, dl \in DescLinks, l \in Locations,
        c \in CompanyNames, h \in HiringCompanies,
        de \in DetectedExtensions, ex \in ExtensionLists }

BasePosting ==
    [ title |-> Str(<<"D","e","v">>), description |-> Str(<<"d","1">>),
      location |-> Str(<<"G","o","a">>), company_name |-> Str(<<"A","c","m","e">>),
      hiring_company |-> NoHiring, link |-> Absent, source |-> Absent,
      detected_extensions |-> NoDetected, extensions |-> NoExtensions ]

\* the postings the provider answers generate_jobs with: two that differ
\* only in letter case (and description), two without a company and location
\* (keys missing, values empty), and one that cannot be normalized
SampleJobs ==
    { BasePosting,
      [BasePosting EXCEPT !.title = Str(<<"D","E","V">>),
                          !.description = Str(<<"d","2">>),
                          !.company_name = Str(<<"A","C","M","E">>),
                          !.location = Str(<<"g","o","a">>)],
      [BasePosting EXCEPT !.company_name = Absent, !.location = Absent],
      [BasePosting EXCEPT !.title = Str(<<"d","e","v">>),
                          !.description = Str(<<"d","2">>),
                          !.company_name = Str(<<>>),
                          !.location = Str(<<>>)],
      [BasePosting EXCEPT !.extensions = NullExtensions] }

\* total number of raw postings the provider returns during one run
MaxPostings == 3

\* sequences over S of length 1..n
SeqsUpTo(S, n) == UNION { [1..m -> S] : m \in 1..n }

-----------------------------------------------------------------------------
(* transform_job_to_internship applied to one posting *)

NoData == [ job_title |-> Null, description |-> Null, location |-> Absent,
            company |-> Absent, source_url |-> Absent, salary |-> Absent,
            time_period |-> Absent ]
NotRun == [raised |-> FALSE, data |-> NoData]

Idle ==
    /\ skills = <<>> /\ degree = Null /\ search_queries = <<>> /\ qi = 0
    /\ outcomes = <<>> /\ used = 0 /\ all_internships = <<>>
    /\ unique_internships = <<>> /\ removed = 0 /\ output_data = Null

RankIdle ==
    /\ internships = <<>> /\ top_k = 0 /\ simOf = <<>> /\ results = <<>>
    /\ out_records = <<>> /\ total_found = 0 /\ df = <<>>

ExtractIdle == job = BasePosting /\ internship = NotRun

InitExtract ==
    /\ job \in RawPostings
    /\ internship = NotRun
    /\ pc = "transform"
    /\ Idle /\ RankIdle

\* transform_job_to_internship returns data
TransformJob ==
    /\ pc = "transform"
    /\ ~transform_raises(job)
    /\ internship' = [raised |-> FALSE,
                      data |-> transform_job_to_internship(job)]
    /\ pc' = "returned"
    /\ UNCHANGED << job, jobsVars, rankVars >>

\* transform_job_to_internship raises out of one of its helpers
TransformJobRaises ==
    /\ pc = "transform"
    /\ transform_raises(job)
    /\ internship' = [raised |-> TRUE, data |-> NoData]
    /\ pc' = "raised"
    /\ UNCHANGED << job, jobsVars, rankVars >>

NextExtract == TransformJob \/ TransformJobRaises

SpecExtract == InitExtract /\ [][NextExtract]_vars

-----------------------------------------------------------------------------
(* job_search.py: generate_jobs *)

\* the request: words of the skill list, the degree, the title, the location
SkillLists == { <<>>, << "Python", "Django" >> }
Degrees    == { Null, Str(<<>>), Str(<< "CS" >>) }
TitleWords == << "Python", "Developer" >>
LocationWord == "India"

\* BuildQueries with the degree query put in front of the skills query
BuildQueriesDegreeFirst(sk, dg) ==
    (IF Truthy(dg)
     THEN << [name |-> "Degree-based",
              query |-> dg.s \o << "internship", "in", LocationWord >>] >>
     ELSE <<>>)
    \o
    (IF sk # <<>>
     THEN << [name |-> "Skills-based",
              query |-> sk \o << "internship", "in", LocationWord >>] >>
     ELSE <<>>)
    \o
    << [name |-> "Main query",
        query |-> TitleWords \o << "internship", "in", LocationWord >>] >>

\* search_queries as the function builds it: (name, words of the query)
BuildQueries(sk, dg) ==
    (IF sk # <<>>
     THEN << [name |-> "Skills-based",
              query |-> sk \o << "internship", "in", LocationWord >>] >>
     ELSE <<>>)
    \o
    (IF Truthy(dg)
     THEN << [name |-> "Degree-based",
              query |-> dg.s \o << "internship", "in", LocationWord >>] >>
     ELSE <<>>)
    \o
    << [name |-> "Main query",
        query |-> TitleWords \o << "internship", "in", LocationWord >>] >>

\* TransformBatch whose loop ends at the first posting that raises
RECURSIVE TransformBatchStops(_, _)
TransformBatchStops(jobs, acc) ==
    IF jobs = <<>> THEN acc
    ELSE IF transform_raises(Head(jobs))
         THEN acc
         ELSE TransformBatchStops(Tail(jobs),
                  Append(acc, transform_job_to_internship(Head(jobs))))

\* the inner loop over one query's postings: a posting whose transformation
\* raises is logged and skipped, the others are appended in order
RECURSIVE TransformBatch(_, _)
TransformBatch(jobs, acc) ==
    IF jobs = <<>> THEN acc
    ELSE IF transform_raises(Head(jobs))
         THEN TransformBatch(Tail(jobs), acc)
         ELSE TransformBatch(Tail(jobs),
                  Append(acc, transform_job_to_internship(Head(jobs))))

\* norm: None and a missing key both read as ''
OrEmpty(v) == IF Truthy(v) THEN v.s ELSE <<>>

\* Signature without the lower-casing
SignatureCaseSensitive(r) ==
    OrEmpty(r.job_title) \o << "|" >> \o
    OrEmpty(r.company)   \o << "|" >> \o
    OrEmpty(r.location)

\* the signature string of the duplicate filter
Signature(r) ==
    Lower(OrEmpty(r.job_title)) \o << "|" >> \o
    Lower(OrEmpty(r.company))   \o << "|" >> \o
    Lower(OrEmpty(r.location))

\* DedupLoop that never adds a signature to seen_signatures
RECURSIVE DedupLoopNeverSeen(_, _, _)
DedupLoopNeverSeen(rest, seen, uniq) ==
    IF rest = <<>> THEN uniq
    ELSE IF Signature(Head(rest)) \notin seen
         THEN DedupLoopNeverSeen(Tail(rest), seen, Append(uniq, Head(rest)))
         ELSE DedupLoopNeverSeen(Tail(rest), seen, uniq)

\* DedupLoop that forgets a signature once it has dropped a duplicate of it
RECURSIVE DedupLoopForgets(_, _, _)
DedupLoopForgets(rest, seen, uniq) ==
    IF rest = <<>> THEN uniq
    ELSE IF Signature(Head(rest)) \notin seen
         THEN DedupLoopForgets(Tail(rest),
                  seen \cup { Signature(Head(rest)) },
                  Append(uniq, Head(rest)))
         ELSE DedupLoopForgets(Tail(rest),
                  seen \ { Signature(Head(rest)) }, uniq)

\* the duplicate-removal loop: unique_internships once the records of rest
\* have been taken, from seen_signatures = seen and unique_internships = uniq
RECURSIVE DedupLoop(_, _, _)
DedupLoop(rest, seen, uniq) ==
    IF rest = <<>> THEN uniq
    ELSE IF Signature(Head(rest)) \notin seen
         THEN DedupLoop(Tail(rest), seen \cup { Signature(Head(rest)) },
                        Append(uniq, Head(rest)))
         ELSE DedupLoop(Tail(rest), seen, uniq)

RemoveDuplicatesOf(records) == DedupLoop(records, {}, <<>>)

InitJobs ==
    /\ pc = "start"
    /\ skills \in SkillLists
    /\ degree \in Degrees
    /\ search_queries = <<>> /\ qi = 0 /\ outcomes = <<>> /\ used = 0
    /\ all_internships = <<>> /\ unique_internships = <<>> /\ removed = 0
    /\ output_data = Null
    /\ ExtractIdle /\ RankIdle

\* lines 166-186: the queries are built, all_internships starts empty
StartSearch ==
    /\ pc = "start"
    /\ search_queries' = BuildQueries(skills, degree)
    /\ all_internships' = <<>>
    /\ pc' = "search"
    /\ UNCHANGED << skills, degree, qi, outcomes, used, unique_internships,
                    removed, output_data, extractVars, rankVars >>

\* what one iteration of the query loop leaves behind
Outcome(kind, jobs, after) ==
    [ name |-> search_queries[qi + 1].name, kind |-> kind, jobs |-> jobs,
      before |-> Len(all_internships), after |-> after ]

\* one iteration in which nothing is appended
SearchWithout(kind) ==
    /\ pc = "search"
    /\ qi < Len(search_queries)
    /\ qi' = qi + 1
    /\ outcomes' = Append(outcomes, Outcome(kind, <<>>, Len(all_internships)))
    /\ UNCHANGED << pc, skills, degree, search_queries, used,
                    all_internships, unique_internships, removed,
                    output_data, extractVars, rankVars >>

\* a failed fetch that is not caught in the loop and leaves the function
SearchFetchAborts ==
    /\ pc = "search"
    /\ qi < Len(search_queries)
    /\ pc' = "raised"
    /\ UNCHANGED << jobsVars, extractVars, rankVars >>

\* fetch_serpapi_data raises; the except of the loop logs and continues
SearchFetchFails == SearchWithout("fetch_failed")

\* jobs_results is something len() or iteration rejects: processing the
\* answer raises before any posting is reached
SearchProcessingFails == SearchWithout("processing_failed")

\* jobs_results is missing or empty
SearchNoResults == SearchWithout("no_results")

\* the provider returns postings; each goes through the extractor
SearchFindsJobs ==
    /\ pc = "search"
    /\ qi < Len(search_queries)
    /\ used < MaxPostings
    /\ \E jobs \in SeqsUpTo(SampleJobs, MaxPostings - used) :
          /\ all_internships' = TransformBatch(jobs, all_internships)
          /\ outcomes' = Append(outcomes,
                 Outcome("ok", jobs, Len(TransformBatch(jobs, all_internships))))
          /\ used' = used + Len(jobs)
    /\ qi' = qi + 1
    /\ UNCHANGED << pc, skills, degree, search_queries, unique_internships,
                    removed, output_data, extractVars, rankVars >>

\* lines 214-227: duplicates removed, their number reported
RemoveDuplicates ==
    /\ pc = "search"
    /\ qi = Len(search_queries)
    /\ unique_internships' = RemoveDuplicatesOf(all_internships)
    /\ removed' = Len(all_internships)
                     - Len(RemoveDuplicatesOf(all_internships))
    /\ pc' = "write"
    /\ UNCHANGED << skills, degree, search_queries, qi, outcomes, used,
                    all_internships, output_data, extractVars, rankVars >>

\* lines 229-248: the output document built, written to output.json and
\* returned
WriteOutput ==
    /\ pc = "write"
    /\ output_data' = [ internships |-> unique_internships,
                        total_count |-> Len(unique_internships),
                        search_criteria |-> [ title |-> TitleWords,
                                              skills |-> skills,
                                              degree |-> degree,
                                              location |-> LocationWord ] ]
    /\ pc' = "done"
    /\ UNCHANGED << skills, degree, search_queries, qi, outcomes, used,
                    all_internships, unique_internships, removed,
                    extractVars, rankVars >>

\* lines 250-252: writing output.json fails; the error is re-raised
WriteFails ==
    /\ pc = "write"
    /\ pc' = "raised"
    /\ UNCHANGED << jobsVars, extractVars, rankVars >>

Next ==
    \/ StartSearch
    \/ SearchFetchFails
    \/ SearchProcessingFails
    \/ SearchNoResults
    \/ SearchFindsJobs
    \/ RemoveDuplicates
    \/ WriteOutput
    \/ WriteFails

Spec == InitJobs /\ [][Next]_vars

-----------------------------------------------------------------------------
(* recommend_internships.py: generate_recommendations *)

\* longest record list handed to the ranker
MaxRecords == 3
\* top_k ranges over -MaxTopK .. MaxTopK
MaxTopK == 3
\* similarity values are the levels 0 .. MaxSim, ordered like the floats
MaxSim == 2

\* records the extractor produces for the sample postings
RankRecords ==
    { transform_job_to_internship(j) :
        j \in { p \in SampleJobs : ~transform_raises(p) } }

RankDescriptions == { OrEmpty(r.description) : r \in RankRecords }

\* dict.get(key, ''): '' only when the key is missing
GetOrEmpty(v) == IF v.kind = "absent" THEN Str(<<>>) ELSE v

\* lines 54-72: one row per record, scored by the similarity of its
\* description (description read as "get('description', '') or ''")
ScoreRows(recs, sim) ==
    [ i \in 1..Len(recs) |->
        [ job_title   |-> GetOrEmpty(recs[i].job_title),
          company     |-> GetOrEmpty(recs[i].company),
          location    |-> GetOrEmpty(recs[i].location),
          similarity  |-> sim[OrEmpty(recs[i].description)],
          description |-> Str(OrEmpty(recs[i].description)) ] ]

Reverse(s) == [ i \in 1..Len(s) |-> s[Len(s) + 1 - i] ]

\* insertion of row into an ascending list, behind the rows of equal key
RECURSIVE InsertAsc(_, _)
InsertAsc(row, sorted) ==
    IF sorted = <<>> THEN << row >>
    ELSE IF row.similarity < Head(sorted).similarity
         THEN << row >> \o sorted
         ELSE << Head(sorted) >> \o InsertAsc(row, Tail(sorted))

\* the stable ascending sort underneath sorted()
RECURSIVE StableSortAsc(_)
StableSortAsc(rows) ==
    IF rows = <<>> THEN <<>>
    ELSE InsertAsc(rows[Len(rows)],
                   StableSortAsc(Sub(rows, 1, Len(rows) - 1)))

\* an ascending sort followed by a reversal
SortedThenReversed(rows) == Reverse(StableSortAsc(rows))

\* sorted(results, key=similarity, reverse=True): the list is reversed,
\* sorted stably in ascending order and reversed again
SortedBySimilarity(rows) == Reverse(StableSortAsc(Reverse(rows)))

\* DataFrame.head(n): the first n rows; for a negative n all rows but the
\* last |n|
DfHead(rows, n) ==
    IF n >= 0 THEN Sub(rows, 1, Min(n, Len(rows)))
    ELSE Sub(rows, 1, Max(Len(rows) + n, 0))

InitRank ==
    /\ pc = "rank"
    /\ internships \in { <<>> } \cup SeqsUpTo(RankRecords, MaxRecords)
    /\ top_k \in (0 - MaxTopK)..MaxTopK
    /\ simOf \in [ RankDescriptions -> 0..MaxSim ]
    /\ results = <<>> /\ out_records = <<>> /\ total_found = 0 /\ df = <<>>
    /\ ExtractIdle /\ Idle

\* lines 47-48, 56, 66: loading the model or embedding a text fails; the
\* error leaves the function
EmbeddingFails ==
    /\ pc = "rank"
    /\ pc' = "raised"
    /\ UNCHANGED << extractVars, jobsVars, rankVars >>

\* lines 50-72: embeddings and similarities computed
ScoreInternships ==
    /\ pc = "rank"
    /\ results' = ScoreRows(internships, simOf)
    /\ pc' = "scored"
    /\ UNCHANGED << internships, top_k, simOf, out_records, total_found, df,
                    extractVars, jobsVars >>

\* lines 74-79: rows ranked, the DataFrame built
RankResults ==
    /\ pc = "scored"
    /\ results' = SortedBySimilarity(results)
    /\ df' = SortedBySimilarity(results)
    /\ pc' = "ranked"
    /\ UNCHANGED << internships, top_k, simOf, out_records, total_found,
                    extractVars, jobsVars >>

\* lines 81-86: the top_k rows written to recommendations.json, df returned
WriteRecommendations ==
    /\ pc = "ranked"
    /\ out_records' = DfHead(df, top_k)
    /\ total_found' = Len(df)
    /\ pc' = "recommended"
    /\ UNCHANGED << internships, top_k, simOf, results, df,
                    extractVars, jobsVars >>

NextRank ==
    \/ EmbeddingFails
    \/ ScoreInternships
    \/ RankResults
    \/ WriteRecommendations

SpecRank == InitRank /\ [][NextRank]_vars

-----------------------------------------------------------------------------
(* Properties of generate_jobs, checked under Spec *)

\* the k-th smallest element of a set of indices
KthOf(S, k) == CHOOSE i \in S : Cardinality({ j \in S : j <= i }) = k

\* the query loop was left and the duplicate filter has run
Deduped == pc \in { "write", "done", "raised" }

\* indices of the records no earlier record shares a signature with
FirstOccurrences(L) ==
    { i \in 1..Len(L) :
        \A j \in 1..(i - 1) : Signature(L[j]) # Signature(L[i]) }

\* C1: the duplicate filter outputs exactly the first occurrence of every
\* signature: no two output records share a signature, every input
\* signature is in the output, and the output is the input restricted to
\* the first occurrences, in input order.
C1_DedupKeepsFirstOccurrences ==
    Deduped =>
        LET L == all_internships
            U == unique_internships
            F == FirstOccurrences(L)
        IN /\ \A a, b \in 1..Len(U) :
                 a # b => Signature(U[a]) # Signature(U[b])
           /\ \A i \in 1..Len(L) :
                 \E a \in 1..Len(U) : Signature(U[a]) = Signature(L[i])
           /\ Len(U) = Cardinality(F)
           /\ \A k \in 1..Len(U) : U[k] = L[KthOf(F, k)]

\* a later record with another description was dropped and two records kept
C1_Witness ==
    /\ Deduped
    /\ Len(unique_internships) = 2
    /\ Len(all_internships) = 3
    /\ \E i \in 2..3 :
          /\ Signature(all_internships[i]) = Signature(all_internships[1])
          /\ all_internships[i] # all_internships[1]

\* an outcome of the query loop in which the query failed
Failed(o) == o.kind \in { "fetch_failed", "processing_failed" }

\* the records one batch of postings normalizes to: the postings that
\* transform without raising, in the order of the batch
NormalizedOf(jobs) ==
    LET good == { i \in 1..Len(jobs) : ~transform_raises(jobs[i]) }
    IN [ k \in 1..Cardinality(good) |->
           transform_job_to_internship(jobs[KthOf(good, k)]) ]

\* C2: a failed query contributes no record and stops nothing: the loop is
\* only left once every query has been taken, the records of every query
\* that did not fail are in the merged list, and the function raises only
\* after the loop, never out of a query.
C2_QueryFailureIsolated ==
    /\ \A i \in 1..Len(outcomes) :
          Failed(outcomes[i]) => outcomes[i].after = outcomes[i].before
    /\ \A i \in 1..Len(outcomes) :
          ~Failed(outcomes[i]) =>
              Sub(all_internships, outcomes[i].before + 1, outcomes[i].after)
                  = NormalizedOf(outcomes[i].jobs)
    /\ pc \in { "write", "done", "raised" } =>
          /\ Len(outcomes) = Len(search_queries)
          /\ qi = Len(search_queries)
          /\ Len(all_internships) = outcomes[Len(outcomes)].after

\* a query failed, a later one delivered records, the loop ended normally
C2_Witness ==
    /\ pc = "done"
    /\ \E i, j \in 1..Len(outcomes) :
          /\ i < j
          /\ Failed(outcomes[i])
          /\ outcomes[j].kind = "ok"
          /\ outcomes[j].after > outcomes[j].before
    /\ \E i \in 1..Len(outcomes) : outcomes[i].kind = "processing_failed"

\* names of the queries the request calls for, in the fixed order
ExpectedQueries ==
    (IF skills # <<>> THEN << "Skills-based" >> ELSE <<>>)
    \o (IF degree.kind = "str" /\ degree.s # <<>>
        THEN << "Degree-based" >> ELSE <<>>)
    \o << "Main query" >>

RECURSIVE ConcatAll(_)
ConcatAll(lists) ==
    IF lists = <<>> THEN <<>> ELSE Head(lists) \o ConcatAll(Tail(lists))

\* C3: the queries are skills-based (non-empty skill list only),
\* degree-based (non-empty degree only), title-based (always), taken in that
\* order and once each, and the merged list is the concatenation of the
\* per-query normalized lists in query order, postings in provider order.
C3_QueryOrderAndMerge ==
    pc # "start" =>
        /\ [ i \in 1..Len(search_queries) |-> search_queries[i].name ]
              = ExpectedQueries
        /\ Len(outcomes) = qi
        /\ qi <= Len(ExpectedQueries)
        /\ \A i \in 1..Len(outcomes) : outcomes[i].name = ExpectedQueries[i]
        /\ Deduped => Len(outcomes) = Len(ExpectedQueries)
        /\ all_internships =
              ConcatAll([ i \in 1..Len(outcomes) |->
                            NormalizedOf(outcomes[i].jobs) ])

\* all three queries ran; two of them delivered different records
C3_Witness ==
    /\ pc = "done"
    /\ Len(outcomes) = 3
    /\ outcomes[1].after = 1
    /\ outcomes[3].after = outcomes[3].before + 1
    /\ Len(all_internships) = 2
    /\ all_internships[1] # all_internships[2]

\* C6: duplicate removal is idempotent, and a list in which no two records
\* share a signature comes back unchanged, with zero duplicates reported.
C6_DedupIdempotent ==
    Deduped =>
        /\ RemoveDuplicatesOf(unique_internships) = unique_internships
        /\ (\A i, j \in 1..Len(all_internships) :
               i # j => Signature(all_internships[i])
                           # Signature(all_internships[j]))
           => (unique_internships = all_internships /\ removed = 0)

\* a list of three records with one signature was reduced to one record
C6_Witness ==
    /\ Deduped
    /\ Len(all_internships) = 3
    /\ Len(unique_internships) = 1
    /\ removed = 2

\* the text a signature component stands for: '' when missing or None
TextOf(v) == IF v.kind = "str" THEN v.s ELSE <<>>

\* x and y are the same text up to letter case
SameButCase(x, y) ==
    /\ Len(x) = Len(y)
    /\ \A i \in 1..Len(x) :
          \/ x[i] = y[i]
          \/ \E k \in 1..26 :
                { x[i], y[i] } = { UpperCase[k], LowerCase[k] }

\* two records whose title, company and location differ in letter case only
SameIgnoringCase(r1, r2) ==
    /\ SameButCase(TextOf(r1.job_title), TextOf(r2.job_title))
    /\ SameButCase(TextOf(r1.company), TextOf(r2.company))
    /\ SameButCase(TextOf(r1.location), TextOf(r2.location))

\* C7: records whose title, company and location differ only in letter
\* case, a missing or null component counting as empty, collapse to a single
\* output record.
C7_CaseInsensitiveSignature ==
    Deduped =>
        \A i, j \in 1..Len(all_internships) :
            (i < j /\ SameIgnoringCase(all_internships[i], all_internships[j]))
            => Cardinality({ a \in 1..Len(unique_internships) :
                               SameIgnoringCase(unique_internships[a],
                                                all_internships[i]) }) = 1

\* two records differing in case in all three components collapsed to the
\* first of them, next to a record whose company and location are missing
C7_Witness ==
    /\ Deduped
    /\ Len(unique_internships) = 2
    /\ \E a \in 1..2 : /\ unique_internships[a].company = Absent
                        /\ unique_internships[a].location = Absent
    /\ \E i, j \in 1..Len(all_internships) :
          /\ i < j
          /\ SameIgnoringCase(all_internships[i], all_internships[j])
          /\ all_internships[i].job_title # all_internships[j].job_title
          /\ all_internships[i].company # all_internships[j].company
          /\ all_internships[i].location # all_internships[j].location
          /\ \A a \in 1..Len(unique_internships) :
                unique_internships[a] # all_internships[j]

-----------------------------------------------------------------------------
(* Properties of generate_recommendations, checked under SpecRank *)

\* generate_recommendations has returned
Recommended == pc = "recommended"

\* C4: for top_k >= 0 the sequence generate_recommendations returns has
\* length min(top_k, number of input records).
C4_ReturnedLengthIsMin ==
    (Recommended /\ top_k >= 0) =>
        Len(df) = Min(top_k, Len(internships))

\* place of input row i in the ranking: behind every row of greater
\* similarity and every earlier row of equal similarity
PlaceOf(S, i) ==
    1 + Cardinality({ j \in 1..Len(S) :
                        \/ S[j].similarity > S[i].similarity
                        \/ (S[j].similarity = S[i].similarity /\ j < i) })

\* C5: the ranking is ordered by non-increasing similarity and is stable:
\* of two input records with equal similarity the earlier one comes first.
C5_RankedDescendingStable ==
    pc \in { "ranked", "recommended" } =>
        LET S == ScoreRows(internships, simOf)
        IN /\ Len(df) = Len(S)
           /\ \A p \in 1..(Len(df) - 1) :
                 df[p].similarity >= df[p + 1].similarity
           /\ \A i \in 1..Len(S) : df[PlaceOf(S, i)] = S[i]

\* two different records tie and a later record outranks both
C5_Witness ==
    /\ Recommended
    /\ Len(internships) = 3
    /\ LET S == ScoreRows(internships, simOf)
       IN /\ S[1].similarity = S[2].similarity
          /\ S[1] # S[2]
          /\ S[3].similarity > S[1].similarity
          /\ df = << S[3], S[1], S[2] >>

\* C10: for top_k <= 0 nothing is returned and the recommendations array of
\* the ranking artifact is empty.
C10_NonPositiveTopKEmpty ==
    (Recommended /\ top_k <= 0) => (df = <<>> /\ out_records = <<>>)

-----------------------------------------------------------------------------
(* Properties of transform_job_to_internship, checked under SpecExtract *)

OptionalKeys == { "location", "company", "source_url", "salary",
                  "time_period" }

\* the posting carries detected_extensions -> salary
HasStructuredSalary(j) ==
    j.detected_extensions.kind = "dict"
    /\ j.detected_extensions.salary.kind # "absent"

\* C8: the record is sparse: an optional key is either missing or holds a
\* non-empty string, never null and never ''; a posting with no salary field
\* and no extensions list gives a record without a salary key.
C8_SparseRecord ==
    pc = "returned" =>
        /\ \A k \in OptionalKeys :
              \/ internship.data[k] = Absent
              \/ (internship.data[k].kind = "str"
                  /\ internship.data[k].s # <<>>)
        /\ (~HasStructuredSalary(job) /\ job.extensions.kind = "absent")
              => internship.data.salary = Absent

\* empty values were offered for location, company, source and salary and
\* none of them became a key
C8_Witness ==
    /\ pc = "returned"
    /\ job.location = Str(<<>>)
    /\ job.company_name = Str(<<>>)
    /\ job.link = Str(<<>>)
    /\ job.detected_extensions.salary = Str(<<>>)
    /\ internship.data.location = Absent
    /\ internship.data.company = Absent
    /\ internship.data.salary = Absent
    /\ internship.data.source_url # Absent

\* entries of the free-text list that match the salary pattern
SalaryEntries(j) ==
    { i \in 1..Len(j.extensions.items) :
        SalaryMatch(j.extensions.items[i]) }

\* C9 as stated: whenever the posting has a structured salary field, the
\* record's salary is that value verbatim.
C9_StructuredSalaryVerbatim ==
    (pc = "returned" /\ HasStructuredSalary(job)) =>
        internship.data.salary = job.detected_extensions.salary

\* C9 amended: a non-empty structured salary is the record's salary whatever
\* the free-text list holds; an empty or null structured salary gives no
\* salary key, the free-text list still not being consulted; without a
\* structured salary field the first matching free-text entry is the
\* salary, and there is no salary key when none matches.
C9_StructuredSalaryWins ==
    pc = "returned" =>
        /\ (HasStructuredSalary(job)
              /\ Truthy(job.detected_extensions.salary))
           => internship.data.salary = job.detected_extensions.salary
        /\ (HasStructuredSalary(job)
              /\ ~Truthy(job.detected_extensions.salary))
           => internship.data.salary = Absent
        /\ ~HasStructuredSalary(job)
           => internship.data.salary =
                 IF SalaryEntries(job) = {} THEN Absent
                 ELSE Str(job.extensions.items[KthOf(SalaryEntries(job), 1)])

\* a structured salary was returned although a free-text entry matches
C9_Witness ==
    /\ pc = "returned"
    /\ HasStructuredSalary(job)
    /\ SalaryEntries(job) # {}
    /\ internship.data.salary = job.detected_extensions.salary
    /\ \A i \in SalaryEntries(job) :
          Str(job.extensions.items[i]) # internship.data.salary

-----------------------------------------------------------------------------
(* The per-posting skip of generate_jobs, checked under Spec *)

\* number of postings among the first p of a batch that normalize
GoodUpTo(jobs, p) ==
    Cardinality({ h \in 1..p : ~transform_raises(jobs[h]) })

\* C11: a posting that fails to normalize is the only thing dropped: every
\* other posting of its batch, before and after it, is normalized and sits
\* in the merged list in provider order, the queries after it are still
\* taken, and the function does not raise out of the query loop.
C11_FailedPostingSkipped ==
    /\ \A i \in 1..Len(outcomes) :
          LET o == outcomes[i]
          IN /\ o.after - o.before = GoodUpTo(o.jobs, Len(o.jobs))
             /\ o.after <= Len(all_internships)
             /\ \A p \in 1..Len(o.jobs) :
                   ~transform_raises(o.jobs[p]) =>
                       all_internships[o.before + GoodUpTo(o.jobs, p)]
                           = transform_job_to_internship(o.jobs[p])
    /\ (\E i \in 1..Len(outcomes) :
           \E p \in 1..Len(outcomes[i].jobs) :
              transform_raises(outcomes[i].jobs[p]))
       => /\ pc # "start"
          /\ pc # "search" => qi = Len(search_queries)

\* a batch of three whose middle posting failed left its two neighbours,
\* different records, in the merged list, and a later query was still taken
C11_Witness ==
    /\ pc = "done"
    /\ Len(outcomes) >= 2
    /\ Len(outcomes[1].jobs) = 3
    /\ ~transform_raises(outcomes[1].jobs[1])
    /\ transform_raises(outcomes[1].jobs[2])
    /\ ~transform_raises(outcomes[1].jobs[3])
    /\ all_internships =
          << transform_job_to_internship(outcomes[1].jobs[1]),
             transform_job_to_internship(outcomes[1].jobs[3]) >>
    /\ all_internships[1] # all_internships[2]

-----------------------------------------------------------------------------
(* The company rule of transform_job_to_internship, checked under
   SpecExtract *)

\* the company the priority rule calls for: the top-level name when the
\* posting supplies a non-empty one, else a non-empty name of the
\* hiring-company structure, else no company key
CompanyByPriority(j) ==
    IF Truthy(j.company_name) THEN j.company_name
    ELSE IF j.hiring_company.kind = "dict" /\ Truthy(j.hiring_company.name)
         THEN j.hiring_company.name
    ELSE Absent

\* C12: the record's company is the top-level company name when there is
\* one, otherwise the hiring-company name, otherwise the key is omitted; a
\* missing or empty top-level name with a non-empty hiring-company name
\* gives the hiring-company name.
C12_CompanyByPriority ==
    pc = "returned" => internship.data.company = CompanyByPriority(job)

=============================================================================
